---- MODULE Spec2Model ----
(***************************************************************************)
(* Morning routine timer: the countdown engine (useTimer), the step        *)
(* sequence (useSteps), the routine editor (RoutineEditor) and the glue    *)
(* of the MorningRoutineTimer component.                                   *)
(*                                                                         *)
(* Sources: src/src/steps.ts (step data, the editable variant of the       *)
(* component) and src/src/morning-routine-timer.tsx (the fixed-routine     *)
(* variant, which has the same hooks but no editor).                       *)
(*                                                                         *)
(* Conventions                                                             *)
(*  - One action is one browser event (an interval callback or a click)    *)
(*    together with the React render that follows it: events are           *)
(*    serialised and React re-renders between two of them, so the values   *)
(*    closed over by the callbacks are the current state.  State updater   *)
(*    functions run once per update (production build).                    *)
(*  - A step duration is a number of minutes that may be fractional        *)
(*    (duration: 0.1).  Durations are kept in units of 1/DurScale minute,  *)
(*    so 0.1 is 1 and 1 is 10; Seconds(d) is the source's duration * 60.   *)
(*  - Step objects have identity: the editor copies the array but not the  *)
(*    objects, so steps and editedSteps are sequences of references into   *)
(*    heap.                                                                *)
(*  - progress is an exact rational <<n, d>> in lowest terms with d > 0;   *)
(*    NaN is <<0, 0>> and -Infinity is <<-1, 0>>.                          *)
(***************************************************************************)
EXTENDS Integers, Sequences, FiniteSets, TLC

\* ------------------------------------------------------------------ bounds
\* Number of steps of the configured lists that the model keeps (a prefix).
InitLen == 2
\* Number of interval callbacks delivered in one session.
MaxTicks == 8
\* Number of editor operations (field change, add, remove) in one session.
MaxEdits == 1
\* Largest seed handed to the engine when it is driven directly.
MaxSeed == 5
\* Longest step list handed to useSteps when it is driven directly.
MaxListLen == 3
\* Largest number of seconds, of either sign, handed to formatTime.
MaxFormatSeconds == 125

\* ------------------------------------------------------- program constants
\* Units per minute in which durations are kept (0.1 minute is one unit).
DurScale == 10
\* duration * 60
SecondsPerMinute == 60
\* { name: "New Step", duration: 5, url: "" }
NewStepMinutes == 5
\* Parts into which the interval's period of 1000 ms is divided.
TickPeriod == 3

\* ----------------------------------------------------------- step records
Step(n, d, u) == [name |-> n, duration |-> d, url |-> u]

\* INITIAL_STEPS of the fixed variant (absent url is "").
INITIAL_STEPS ==
  << Step("Test step", 1, ""),
     Step("Read Mnestic", 10, ""),
     Step("Look at RingConn", 10, ""),
     Step("Log sleep stats Exist", 30, "https://exist.io/review/"),
     Step("Sunsama init", 40, ""),
     Step("Look at calendar", 10, "https://calendar.google.com/calendar/u/0/r") >>

\* initialSteps of the editable variant.
initialSteps ==
  << Step("Read Mnestic", 10, "obsidian://open?vault=Chaos&file=Resources%2FMnestic"),
     Step("Sunsama init", 20, ""),
     Step("Log sleep stats TT", 30, "https://appx.tenacious-tracker.com/tracking"),
     Step("Log sleep stats Exist", 30, "https://exist.io/review/"),
     Step("Look at calendar", 10, "https://calendar.google.com/calendar/u/0/r"),
     Step("Look at todo list", 20, "https://app.todoist.com/app/today") >>

Min(a, b) == IF a <= b THEN a ELSE b

Prefix(s, n) == SubSeq(s, 1, Min(n, Len(s)))

\* ------------------------------------------------------------------- state
VARIABLES
  variant,            \* "fixed" | "editable": which component runs;
                      \* "engine" | "steps": which hook is driven directly
                      \* "format": formatTime is applied to timeLeft;
                      \* "clock": useTimer driven directly, with the time
                      \* inside the interval's period kept;
                      \* "fraction": useTimer driven directly from a seed
                      \* that is not a whole number of seconds
  mounted,            \* the component is mounted (interval may be armed)
  \* useTimer
  timeLeft, isRunning, totalTime, totalOvertime, isOvertime,
  fraction,           \* timeLeft holds the whole seconds (rounded down) of the
                      \* number the code keeps; this is the rest, in tenths of
                      \* a second (0 for every duration of the configured
                      \* lists and of the editor)
  \* useSteps
  heap, steps, currentStep, isRoutineFinished, progress,
  \* Tabs / RoutineEditor
  tab, editedSteps, edits,
  \* effects
  endCalls,           \* onTimerEnd() calls since the engine was last seeded
  lastOpened,         \* url handed to window.open by the last event, or ""
  \* history
  calls,              \* operations invoked by the last event
  repeated,           \* the last event was a second startTimer / pauseTimer in a row
  again,              \* the last event called goToNextStep with isRoutineFinished set
  nexts,              \* goToNextStep calls since the list was set (counted up
                      \* to one more than its length)
  ret,                \* value returned by goToNextStep in the last event: <<v>>
                      \* or <<>> (the characters returned, when formatTime is called)
  ticks,              \* interval callbacks delivered so far
  lateTicks,          \* ... of which had timeLeft <= 0 before the decrement
  seed,               \* value the engine was last seeded with
  run,                \* n when the last events were resetTimer and then n
                      \* interval callbacks and nothing else, otherwise -1
  baseTotal,          \* totalTime when the engine was last seeded
  baseOvertime,       \* totalOvertime when the engine was last seeded
  \* the interval's period ("clock" only; 0 elsewhere, where a callback
  \* stands for the whole period before it)
  sinceArmed,         \* parts of the period elapsed since setInterval or the
                      \* last callback
  waited,             \* history: parts elapsed since startTimer last set
                      \* isRunning (at most TickPeriod)
  discarded           \* history: parts elapsed on intervals that were
                      \* cleared before their callback (at most TickPeriod)

engineVars == << timeLeft, isRunning, totalTime, totalOvertime, isOvertime,
                fraction >>
seqVars == << heap, steps, currentStep, isRoutineFinished, progress >>
editorVars == << tab, editedSteps, edits >>
tickHist == << ticks, lateTicks >>
stepHist == << seed, baseTotal, baseOvertime, endCalls >>
clockVars == << sinceArmed, waited, discarded >>
vars == << variant, mounted, engineVars, seqVars, editorVars, lastOpened,
           calls, repeated, again, nexts, ret, tickHist, run, stepHist,
           clockVars >>

\* ------------------------------------------------------------ useSteps
\* step.duration * 60
Seconds(d) == (d * SecondsPerMinute) \div DurScale

StepAt(i) == heap[steps[i + 1]]

RECURSIVE SumSeconds(_, _)
\* steps.slice(0, k).reduce((sum, step) => sum + step.duration * 60, 0)
SumSeconds(s, k) ==
  IF k <= 0 \/ Len(s) = 0 THEN 0
  ELSE LET m == Min(k, Len(s))
       IN SumSeconds(s, m - 1) + Seconds(heap[s[m]].duration)

Abs(x) == IF x < 0 THEN -x ELSE x

RECURSIVE Gcd(_, _)
Gcd(a, b) == IF b = 0 THEN a ELSE Gcd(b, a % b)

NaN == << 0, 0 >>
NegInfinity == << -1, 0 >>
Whole(n) == << n, 1 >>

\* (a / b) * 100 in lowest terms
Ratio100(a, b) ==
  IF b = 0
  THEN IF a = 0 THEN NaN ELSE IF a > 0 THEN << 1, 0 >> ELSE NegInfinity
  ELSE LET n == IF b < 0 THEN -(100 * a) ELSE 100 * a
           d == Abs(b)
           g == Gcd(Abs(n), d)
       IN << n \div g, d \div g >>

\* Math.min(x, 100)
MinHundred(x) ==
  IF x = NaN THEN NaN
  ELSE IF x = NegInfinity THEN NegInfinity
  ELSE IF x[2] = 0 THEN Whole(100)
  ELSE IF x[1] > 100 * x[2] THEN Whole(100) ELSE x

calculateProgress(stepIndex) ==
  LET totalDuration == SumSeconds(steps, Len(steps))
      completedDuration == SumSeconds(steps, stepIndex)
  IN MinHundred(Ratio100(completedDuration, totalDuration))

\* Math.floor(x), a variant of the display rounding
RoundDown(x) == IF x[2] = 0 THEN x ELSE Whole(x[1] \div x[2])

\* Math.round(x): the nearest integer, a half rounding up
Round(x) == IF x[2] = 0 THEN x ELSE Whole((2 * x[1] + x[2]) \div (2 * x[2]))

\* ------------------------------------------------------------ useTimer
\* variant: the tick that starts at zero is still taken as countdown
CountingFromZero(prevTime) == prevTime >= 0

\* if (prevTime > 0)
Counting(prevTime) == prevTime > 0 \/ (prevTime = 0 /\ fraction > 0)

\* variant: the end is signalled on every tick at or below zero
AtOrBelowZero(prevTime) == prevTime <= 0

\* variant: the end is signalled one tick late
AtMinusOne(prevTime) == prevTime = -1

\* if (prevTime === 0)
AtZero(prevTime) == prevTime = 0 /\ fraction = 0

\* variant: the countdown stops at zero
DecrementClamped(prevTime) == IF prevTime > 0 THEN prevTime - 1 ELSE prevTime

\* return prevTime - 1
Decrement(prevTime) == prevTime - 1

\* variant: a callback at or below zero adds to totalOvertime only
TickUpdateOvertimeOnly ==
  /\ timeLeft' = Decrement(timeLeft)
  /\ IF Counting(timeLeft)
     THEN /\ totalTime' = totalTime + 1
          /\ UNCHANGED << totalOvertime, isOvertime, endCalls >>
     ELSE /\ totalTime' = totalTime
          /\ totalOvertime' = totalOvertime + 1
          /\ IF AtZero(timeLeft)
             THEN isOvertime' = TRUE /\ endCalls' = endCalls + 1
             ELSE UNCHANGED << isOvertime, endCalls >>
  /\ UNCHANGED << isRunning, fraction >>

\* The interval callback: setTimeLeft((prevTime) => ...)
TickUpdate ==
  /\ timeLeft' = Decrement(timeLeft)
  /\ totalTime' = totalTime + 1
  /\ IF Counting(timeLeft)
     THEN /\ UNCHANGED << totalOvertime, isOvertime, endCalls >>
     ELSE /\ totalOvertime' = totalOvertime + 1
          /\ IF AtZero(timeLeft)
             THEN isOvertime' = TRUE /\ endCalls' = endCalls + 1
             ELSE UNCHANGED << isOvertime, endCalls >>
  /\ UNCHANGED << isRunning, fraction >>

\* variant: the button handler toggles instead of setting
startTimerToggle ==
  /\ isRunning' = ~isRunning
  /\ UNCHANGED << timeLeft, fraction, totalTime, totalOvertime, isOvertime >>

startTimer ==
  /\ isRunning' = TRUE
  /\ UNCHANGED << timeLeft, fraction, totalTime, totalOvertime, isOvertime >>

pauseTimer ==
  /\ isRunning' = FALSE
  /\ UNCHANGED << timeLeft, fraction, totalTime, totalOvertime, isOvertime >>

\* variant: a reset keeps the overtime flag as it was
resetTimerKeepsOvertime(newTime) ==
  /\ timeLeft' = newTime
  /\ fraction' = 0
  /\ isRunning' = TRUE
  /\ UNCHANGED << isOvertime, totalTime, totalOvertime >>

\* variant: a reset keeps the running flag as it was
resetTimerNoStart(newTime) ==
  /\ timeLeft' = newTime
  /\ fraction' = 0
  /\ isOvertime' = FALSE
  /\ UNCHANGED << isRunning, totalTime, totalOvertime >>

\* variant: a reset clears the session totals
resetTimerClearsTotals(newTime) ==
  /\ timeLeft' = newTime
  /\ fraction' = 0
  /\ isOvertime' = FALSE
  /\ isRunning' = TRUE
  /\ totalTime' = 0
  /\ totalOvertime' = 0

resetTimer(newTime) ==
  /\ timeLeft' = newTime
  /\ fraction' = 0
  /\ isOvertime' = FALSE
  /\ isRunning' = TRUE
  /\ UNCHANGED << totalTime, totalOvertime >>

\* history kept when the engine is seeded anew
NoteSeed(newTime) ==
  /\ seed' = newTime
  /\ run' = 0
  /\ baseTotal' = totalTime
  /\ baseOvertime' = totalOvertime
  /\ endCalls' = 0

\* ------------------------------------------------------------ actions
\* variant: the interval outlives a change of isRunning and keeps its phase
RearmedNever(ops) == FALSE

\* useEffect(..., [isRunning, onTimerEnd]): the cleanup clears the interval
\* and the effect sets a new one when the event changes isRunning (onTimerEnd
\* is a stable callback); setting isRunning to the value it has renders
\* nothing. The teardown clears the interval as well.
Rearmed(ops) ==
  \/ "startTimer" \in ops /\ ~isRunning
  \/ "resetTimer" \in ops /\ ~isRunning
  \/ "pauseTimer" \in ops /\ isRunning
  \/ "unmount" \in ops

\* the time inside the period, and its history
Clock(ops) ==
  /\ sinceArmed' = IF Rearmed(ops) \/ "tick" \in ops THEN 0
                   ELSE IF "wait" \in ops THEN sinceArmed + 1
                   ELSE sinceArmed
  /\ waited' = IF "startTimer" \in ops /\ ~isRunning THEN 0
               ELSE IF "wait" \in ops THEN Min(waited + 1, TickPeriod)
               ELSE waited
  /\ discarded' = IF Rearmed(ops) THEN Min(discarded + sinceArmed, TickPeriod)
                  ELSE discarded

\* history of one event: the operations it invoked and the url it opened
Event(ops, opened) ==
  /\ Clock(ops)
  /\ calls' = ops
  /\ lastOpened' = opened
  /\ repeated' = (ops = calls /\ ops \in {{"startTimer"}, {"pauseTimer"}})
  /\ again' = ("goToNextStep" \in ops /\ isRoutineFinished)
  /\ nexts' = IF "updateSteps" \in ops THEN 0
              ELSE IF "goToNextStep" \in ops THEN Min(nexts + 1, Len(steps) + 1)
              ELSE nexts

\* an event that is neither an interval callback nor a resetTimer
Other(ops) ==
  /\ Event(ops, "")
  /\ run' = -1

\* variant: the interval is never cleared once the component is mounted
ArmedNoCleanup == mounted

\* useEffect: if (isRunning) setInterval(...); cleanup clearInterval(timer)
Armed == mounted /\ isRunning

\* setInterval callback
\* variant: the callback that reaches the end also moves to the next step
TickAutoAdvance ==
  /\ Armed
  /\ variant = "clock" => sinceArmed = TickPeriod - 1
  /\ ticks < MaxTicks
  /\ TickUpdate
  /\ ticks' = ticks + 1
  /\ lateTicks' = IF timeLeft <= 0 THEN lateTicks + 1 ELSE lateTicks
  /\ run' = IF run >= 0 THEN run + 1 ELSE run
  /\ Event({"tick"}, "")
  /\ IF timeLeft = 0 /\ currentStep < Len(steps) - 1
     THEN /\ currentStep' = currentStep + 1
          /\ UNCHANGED << heap, steps, isRoutineFinished, progress, ret >>
     ELSE UNCHANGED << seqVars, ret >>
  /\ UNCHANGED << variant, mounted, editorVars, seed, baseTotal, baseOvertime >>

\* the interval callback together with the render that follows it
Tick ==
  /\ Armed
  /\ variant = "clock" => sinceArmed = TickPeriod - 1
  /\ ticks < MaxTicks
  /\ TickUpdate
  /\ ticks' = ticks + 1
  /\ lateTicks' = IF timeLeft <= 0 THEN lateTicks + 1 ELSE lateTicks
  /\ run' = IF run >= 0 THEN run + 1 ELSE run
  /\ Event({"tick"}, "")
  /\ UNCHANGED << variant, mounted, seqVars, editorVars, ret,
                  seed, baseTotal, baseOvertime >>


\* a part of the period goes by on a running interval, short of the callback
Wait ==
  /\ variant = "clock"
  /\ Armed
  /\ sinceArmed + 1 < TickPeriod
  /\ Other({"wait"})
  /\ UNCHANGED << variant, mounted, engineVars, seqVars, editorVars, ret,
                  tickHist, stepHist >>

\* useEffect cleanup at teardown: clearInterval(timer)
Unmount ==
  /\ mounted
  /\ mounted' = FALSE
  /\ Other({"unmount"})
  /\ UNCHANGED << variant, engineVars, seqVars, editorVars, ret,
                  tickHist, stepHist >>

\* -------- the engine driven directly through the functions the hook returns
CallStart ==
  /\ mounted
  /\ startTimer
  /\ Other({"startTimer"})
  /\ UNCHANGED << variant, mounted, seqVars, editorVars, ret,
                  tickHist, stepHist >>

CallPause ==
  /\ mounted
  /\ pauseTimer
  /\ Other({"pauseTimer"})
  /\ UNCHANGED << variant, mounted, seqVars, editorVars, ret,
                  tickHist, stepHist >>

CallReset(newTime) ==
  /\ mounted
  /\ resetTimer(newTime)
  /\ NoteSeed(newTime)
  /\ Event({"resetTimer"}, "")
  /\ UNCHANGED << variant, mounted, seqVars, editorVars, ret, tickHist >>

\* -------- useSteps
\* steps[currentStep].duration * 60
getCurrentStepDuration == Seconds(StepAt(currentStep).duration)

\* steps[currentStep] is undefined: reading .duration or .url throws in render
RenderThrows(list, index) == index >= Len(list)

\* the outcome of a call of getCurrentStepDuration(): the value returned, or
\* the TypeError thrown when steps[currentStep] is undefined
getCurrentStepDurationOutcome ==
  IF RenderThrows(steps, currentStep)
  THEN << "TypeError" >>
  ELSE << "returns", getCurrentStepDuration >>

\* if (currentStep < steps.length - 1)
HasNext == currentStep < Len(steps) - 1

\* variant: the progress is computed at the index that is being left
goToNextStepStaleProgress ==
  IF HasNext
  THEN /\ currentStep' = currentStep + 1
       /\ progress' = calculateProgress(currentStep)
       /\ ret' = << Seconds(StepAt(currentStep + 1).duration) >>
       /\ UNCHANGED << heap, steps, isRoutineFinished >>
  ELSE /\ isRoutineFinished' = TRUE
       /\ progress' = Whole(100)
       /\ ret' = << >>
       /\ UNCHANGED << heap, steps, currentStep >>

\* variant: the last call does not set the progress
goToNextStepNoFinalProgress ==
  IF HasNext
  THEN /\ currentStep' = currentStep + 1
       /\ progress' = calculateProgress(currentStep + 1)
       /\ ret' = << Seconds(StepAt(currentStep + 1).duration) >>
       /\ UNCHANGED << heap, steps, isRoutineFinished >>
  ELSE /\ isRoutineFinished' = TRUE
       /\ ret' = << >>
       /\ UNCHANGED << heap, steps, currentStep, progress >>

\* variant: the test against the last index is off by one
goToNextStepFinishesEarly ==
  IF currentStep < Len(steps) - 2
  THEN /\ currentStep' = currentStep + 1
       /\ progress' = calculateProgress(currentStep + 1)
       /\ ret' = << Seconds(StepAt(currentStep + 1).duration) >>
       /\ UNCHANGED << heap, steps, isRoutineFinished >>
  ELSE /\ isRoutineFinished' = TRUE
       /\ progress' = Whole(100)
       /\ ret' = << >>
       /\ UNCHANGED << heap, steps, currentStep >>

goToNextStep ==
  IF HasNext
  THEN /\ currentStep' = currentStep + 1
       /\ progress' = calculateProgress(currentStep + 1)
       /\ ret' = << Seconds(StepAt(currentStep + 1).duration) >>
       /\ UNCHANGED << heap, steps, isRoutineFinished >>
  ELSE /\ isRoutineFinished' = TRUE
       /\ progress' = Whole(100)
       /\ ret' = << >>
       /\ UNCHANGED << heap, steps, currentStep >>

\* variant: without setProgress(0)
updateStepsKeepsProgress(newSteps) ==
  /\ steps' = newSteps
  /\ currentStep' = 0
  /\ isRoutineFinished' = FALSE
  /\ UNCHANGED << heap, progress >>

updateSteps(newSteps) ==
  /\ steps' = newSteps
  /\ currentStep' = 0
  /\ isRoutineFinished' = FALSE
  /\ progress' = Whole(0)
  /\ UNCHANGED heap

\* -------- MorningRoutineTimer
\* variant: the url is read from the step that was current before the click
startNextStepPreviousUrl ==
  /\ goToNextStep
  /\ IF ret' # << >>
     THEN /\ resetTimer(ret'[1])
          /\ NoteSeed(ret'[1])
          /\ Event({"goToNextStep", "resetTimer"}, StepAt(currentStep).url)
     ELSE /\ pauseTimer
          /\ Other({"goToNextStep", "pauseTimer"})
          /\ UNCHANGED stepHist

startNextStep ==
  /\ goToNextStep
  /\ IF ret' # << >>
     THEN /\ resetTimer(ret'[1])
          /\ NoteSeed(ret'[1])
          /\ Event({"goToNextStep", "resetTimer"}, StepAt(currentStep + 1).url)
     ELSE /\ pauseTimer
          /\ Other({"goToNextStep", "pauseTimer"})
          /\ UNCHANGED stepHist

\* variant: the buttons stay on the finished view
TimerControlsWhenFinished ==
  /\ mounted
  /\ variant # "engine"
  /\ tab = "timer"

\* The timer view shows its buttons while the routine is not finished.
TimerControls ==
  /\ mounted
  /\ variant # "engine"
  /\ tab = "timer"
  /\ ~isRoutineFinished

\* onClick={() => (isRunning ? pauseTimer() : startTimer())}, showing "Start"
ClickStart ==
  /\ TimerControls
  /\ ~isRunning
  /\ startTimer
  /\ Other({"startTimer"})
  /\ UNCHANGED << variant, mounted, seqVars, editorVars, ret,
                  tickHist, stepHist >>

\* the same button, showing "Pause"
ClickPause ==
  /\ TimerControls
  /\ isRunning
  /\ pauseTimer
  /\ Other({"pauseTimer"})
  /\ UNCHANGED << variant, mounted, seqVars, editorVars, ret,
                  tickHist, stepHist >>

\* onClick={startNextStep}
ClickNext ==
  /\ TimerControls
  /\ startNextStep
  /\ UNCHANGED << variant, mounted, editorVars, tickHist >>


\* -------- Tabs and RoutineEditor (editable variant)
EditorOpen ==
  /\ mounted
  /\ variant = "editable"
  /\ tab = "editor"

\* Values typed into the duration field (<Input type="number">).
DurationInputs == {"0", "2", "-1", ""}

\* parseInt(value): << n >>, or << >> for NaN
parseInt(value) ==
  CASE value = "0" -> << 0 >>
    [] value = "2" -> << 2 >>
    [] value = "-1" -> << -1 >>
    [] OTHER -> << >>

\* parseInt(value) || 0, in minutes
ParsedMinutes(value) ==
  LET n == parseInt(value)
  IN IF n = << >> \/ n = << 0 >> THEN 0 ELSE n[1]

\* Values typed into the name and url fields.
NameInputs == {"Stretch"}
UrlInputs == {"", "https://example.org/"}

\* TabsTrigger value="editor": the editor is mounted, useState(steps)
OpenEditor ==
  /\ mounted
  /\ variant = "editable"
  /\ tab = "timer"
  /\ tab' = "editor"
  /\ editedSteps' = steps
  /\ Other({"openEditor"})
  /\ UNCHANGED << variant, mounted, engineVars, seqVars, edits, ret,
                  tickHist, stepHist >>

\* TabsTrigger value="timer": the editor is unmounted and its state dropped
CloseEditor ==
  /\ EditorOpen
  /\ tab' = "timer"
  /\ editedSteps' = << >>
  /\ Other({"closeEditor"})
  /\ UNCHANGED << variant, mounted, engineVars, seqVars, edits, ret,
                  tickHist, stepHist >>

\* newSteps = [...editedSteps]; newSteps[index].field = ...: the array is
\* copied, the step object is assigned in place.
handleStepChange(index, field, value) ==
  /\ heap' = [heap EXCEPT ![editedSteps[index]] =
                IF field = "name" THEN [@ EXCEPT !.name = value]
                ELSE IF field = "duration"
                     THEN [@ EXCEPT !.duration = ParsedMinutes(value) * DurScale]
                     ELSE [@ EXCEPT !.url = value]]
  /\ editedSteps' = editedSteps

EditorChange ==
  /\ EditorOpen
  /\ edits < MaxEdits
  /\ \E index \in 1..Len(editedSteps) :
       \/ \E value \in NameInputs : handleStepChange(index, "name", value)
       \/ \E value \in DurationInputs : handleStepChange(index, "duration", value)
       \/ \E value \in UrlInputs : handleStepChange(index, "url", value)
  /\ edits' = edits + 1
  /\ Other({"handleStepChange"})
  /\ UNCHANGED << variant, mounted, engineVars, steps, currentStep,
                  isRoutineFinished, progress, tab, ret, tickHist, stepHist >>

addStep ==
  /\ heap' = Append(heap, Step("New Step", NewStepMinutes * DurScale, ""))
  /\ editedSteps' = Append(editedSteps, Len(heap) + 1)

EditorAdd ==
  /\ EditorOpen
  /\ edits < MaxEdits
  /\ addStep
  /\ edits' = edits + 1
  /\ Other({"addStep"})
  /\ UNCHANGED << variant, mounted, engineVars, steps, currentStep,
                  isRoutineFinished, progress, tab, ret, tickHist, stepHist >>

\* editedSteps.filter((_, i) => i !== index)
removeStep(index) ==
  /\ editedSteps' = SubSeq(editedSteps, 1, index - 1)
                      \o SubSeq(editedSteps, index + 1, Len(editedSteps))
  /\ UNCHANGED heap

EditorRemove ==
  /\ EditorOpen
  /\ edits < MaxEdits
  /\ \E index \in 1..Len(editedSteps) : removeStep(index)
  /\ edits' = edits + 1
  /\ Other({"removeStep"})
  /\ UNCHANGED << variant, mounted, engineVars, steps, currentStep,
                  isRoutineFinished, progress, tab, ret, tickHist, stepHist >>

\* saveChanges: updateSteps(editedSteps); the render that follows calls
\* getCurrentStepDuration(), which throws on an empty list and takes the
\* component tree down.
EditorSave ==
  /\ EditorOpen
  /\ updateSteps(editedSteps)
  /\ mounted' = ~RenderThrows(editedSteps, 0)
  /\ Other({"updateSteps"})
  /\ UNCHANGED << variant, engineVars, editorVars, ret, tickHist, stepHist >>

\* ------------------------------------------------------------ specifications
Refs(n) == [i \in 1..n |-> i]

SequenceInit(list) ==
  /\ heap = Prefix(list, InitLen)
  /\ steps = Refs(Len(Prefix(list, InitLen)))
  /\ currentStep = 0
  /\ isRoutineFinished = FALSE
  /\ progress = Whole(0)
  /\ tab = "timer"
  /\ editedSteps = << >>
  /\ edits = 0

\* variant: the engine is running from the first render
TimerInitRunning(initialTime) ==
  /\ timeLeft = initialTime
  /\ isRunning = TRUE
  /\ totalTime = 0
  /\ totalOvertime = 0
  /\ isOvertime = FALSE
  /\ seed = initialTime
  /\ run = -1
  /\ baseTotal = 0
  /\ baseOvertime = 0
  /\ endCalls = 0
  /\ ticks = 0
  /\ lateTicks = 0
  /\ lastOpened = ""
  /\ calls = {}
  /\ repeated = FALSE
  /\ again = FALSE
  /\ nexts = 0
  /\ ret = << >>
  /\ sinceArmed = 0
  /\ waited = 0
  /\ discarded = 0

\* useTimer(initialTime, onTimerEnd)
TimerInit(initialTime) ==
  /\ timeLeft = initialTime
  /\ isRunning = FALSE
  /\ totalTime = 0
  /\ totalOvertime = 0
  /\ isOvertime = FALSE
  /\ seed = initialTime
  /\ run = -1
  /\ baseTotal = 0
  /\ baseOvertime = 0
  /\ endCalls = 0
  /\ ticks = 0
  /\ lateTicks = 0
  /\ lastOpened = ""
  /\ calls = {}
  /\ repeated = FALSE
  /\ again = FALSE
  /\ nexts = 0
  /\ ret = << >>
  /\ sinceArmed = 0
  /\ waited = 0
  /\ discarded = 0

\* The component as rendered: MorningRoutineTimer of either variant.
Init ==
  /\ variant \in {"fixed", "editable"}
  /\ mounted = TRUE
  /\ SequenceInit(IF variant = "fixed" THEN INITIAL_STEPS ELSE initialSteps)
  /\ TimerInit(getCurrentStepDuration)
  /\ fraction = 0

Next ==
  \/ Tick
  \/ ClickStart
  \/ ClickPause
  \/ ClickNext
  \/ OpenEditor
  \/ CloseEditor
  \/ EditorChange
  \/ EditorAdd
  \/ EditorRemove
  \/ EditorSave

Spec == Init /\ [][Next]_vars

\* Seeds handed to the hook when it is driven directly.
Seeds == (-1)..MaxSeed

\* useTimer on its own, driven by the functions it returns.
EngineInit ==
  /\ variant = "engine"
  /\ mounted = TRUE
  /\ SequenceInit(INITIAL_STEPS)
  /\ \E initialTime \in Seeds : TimerInit(initialTime)
  /\ fraction = 0

EngineNext ==
  \/ Tick
  \/ CallStart
  \/ CallPause
  \/ \E newTime \in Seeds : CallReset(newTime)
  \/ Unmount

EngineSpec == EngineInit /\ [][EngineNext]_vars

\* -------- useTimer driven directly, with the time inside the period
ClockInit ==
  /\ variant = "clock"
  /\ mounted = TRUE
  /\ SequenceInit(INITIAL_STEPS)
  /\ \E initialTime \in Seeds : TimerInit(initialTime)
  /\ fraction = 0

ClockNext ==
  \/ Wait
  \/ Tick
  \/ CallStart
  \/ CallPause
  \/ \E newTime \in Seeds : CallReset(newTime)

ClockSpec == ClockInit /\ [][ClockNext]_vars

\* -------- useTimer seeded with a duration * 60 that is not a whole number
\* useTimer(initialTime, onTimerEnd) with initialTime = n + f / 10 seconds,
\* such as 0.01 minute = 0.6 s
FractionInit ==
  /\ variant = "fraction"
  /\ mounted = TRUE
  /\ SequenceInit(INITIAL_STEPS)
  /\ \E initialTime \in 0..MaxSeed : TimerInit(initialTime)
  /\ fraction \in 1..(DurScale - 1)

FractionNext ==
  \/ Tick
  \/ CallStart
  \/ CallPause

FractionSpec == FractionInit /\ [][FractionNext]_vars

\* -------- formatTime applied to a number of seconds
DecimalDigits == << "0", "1", "2", "3", "4", "5", "6", "7", "8", "9" >>

RECURSIVE toString(_)
\* n.toString() for an integer n >= 0, as a sequence of characters
toString(n) ==
  IF n < 10 THEN << DecimalDigits[n + 1] >>
  ELSE Append(toString(n \div 10), DecimalDigits[(n % 10) + 1])

RECURSIVE padStart(_, _, _)
\* s.padStart(targetLength, pad) for a pad of one character
padStart(s, targetLength, pad) ==
  IF Len(s) >= targetLength THEN s
  ELSE padStart(<< pad >> \o s, targetLength, pad)

\* variant: the sign is left out
formatTimeNoSign(seconds) ==
  LET absSeconds == Abs(seconds)
      mins == absSeconds \div 60
      secs == absSeconds % 60
  IN padStart(toString(mins), 2, "0") \o << ":" >> \o padStart(toString(secs), 2, "0")

formatTime(seconds) ==
  LET absSeconds == Abs(seconds)
      mins == absSeconds \div 60
      secs == absSeconds % 60
      sign == IF seconds < 0 THEN << "-" >> ELSE << >>
  IN sign \o padStart(toString(mins), 2, "0") \o << ":" >>
          \o padStart(toString(secs), 2, "0")

\* The component renders formatTime(timeLeft).
CallFormat ==
  /\ variant = "format"
  /\ ret' = formatTime(timeLeft)
  /\ Other({"formatTime"})
  /\ UNCHANGED << variant, mounted, engineVars, seqVars, editorVars,
                  tickHist, stepHist >>

FormatInit ==
  /\ variant = "format"
  /\ mounted = TRUE
  /\ SequenceInit(INITIAL_STEPS)
  /\ \E seconds \in (-MaxFormatSeconds)..MaxFormatSeconds : TimerInit(seconds)
  /\ fraction = 0

FormatNext == CallFormat

FormatSpec == FormatInit /\ [][FormatNext]_vars

\* -------- useSteps driven directly through the functions the hook returns
\* Durations of the steps handed to the hook: 0, 1 and -1 minute, the values
\* the editor's duration field lets through.
ListDurations == {ParsedMinutes(v) * DurScale : v \in {"0", "-1"}} \cup {DurScale}

RECURSIVE ListsOfLen(_)
ListsOfLen(n) ==
  IF n = 0 THEN {<< >>}
  ELSE {Append(l, Step("Step", d, "")) : l \in ListsOfLen(n - 1), d \in ListDurations}

\* Step lists handed to useSteps and to updateSteps.
StepLists == UNION {ListsOfLen(n) : n \in 0..MaxListLen}

CallNext ==
  /\ mounted
  /\ goToNextStep
  /\ Other({"goToNextStep"})
  /\ UNCHANGED << variant, mounted, engineVars, editorVars,
                  tickHist, stepHist >>

\* updateSteps(newSteps) with a list of new step objects
CallUpdate(list) ==
  /\ mounted
  /\ heap' = list
  /\ steps' = Refs(Len(list))
  /\ currentStep' = 0
  /\ isRoutineFinished' = FALSE
  /\ progress' = Whole(0)
  /\ Other({"updateSteps"})
  /\ UNCHANGED << variant, mounted, engineVars, editorVars, ret,
                  tickHist, stepHist >>

\* useSteps(initialSteps) on its own
StepsInit ==
  /\ variant = "steps"
  /\ mounted = TRUE
  /\ \E list \in StepLists \ {<< >>} :
       /\ heap = list
       /\ steps = Refs(Len(list))
  /\ currentStep = 0
  /\ isRoutineFinished = FALSE
  /\ progress = Whole(0)
  /\ tab = "timer"
  /\ editedSteps = << >>
  /\ edits = 0
  /\ TimerInit(0)
  /\ fraction = 0

StepsNext ==
  \/ CallNext
  \/ \E list \in StepLists : CallUpdate(list)

StepsSpec == StepsInit /\ [][StepsNext]_vars

\* the same, with a caller that keeps calling goToNextStep
StepsFairSpec == StepsSpec /\ WF_vars(CallNext)


\* ==================================================================== claims
Max(a, b) == IF a >= b THEN a ELSE b

TickDelivered == ticks' = ticks + 1

\* C1: every tick delivered while running takes one second off timeLeft and
\* adds one second to totalTime, whatever the sign of timeLeft; after n
\* ticks totalTime has grown by n.
C1_TickCountsOneSecond ==
  /\ [][TickDelivered =>
          /\ isRunning
          /\ timeLeft' = timeLeft - 1
          /\ totalTime' = totalTime + 1]_vars
  /\ [](totalTime = ticks)

\* a tick has just been delivered below zero, after ticks above and at zero
C1_Witness ==
  /\ calls = {"tick"}
  /\ seed >= 1
  /\ timeLeft <= -2
  /\ totalTime = ticks
  /\ ticks >= 4

\* C2: totalOvertime is the number of ticks delivered so far whose timeLeft
\* before the decrement was <= 0, over the whole session: it carries over
\* resets, next-step actions and saved edits and is never cleared.
C2_OvertimeCountsLateTicks == totalOvertime = lateTicks

\* overtime gathered in an earlier step and again in the current one
C2_Witness ==
  /\ variant # "engine"
  /\ baseOvertime >= 1
  /\ totalOvertime > baseOvertime
  /\ totalOvertime = lateTicks
  /\ calls = {"tick"}

\* C3: between two seedings of the engine onTimerEnd is called at the tick
\* that takes timeLeft from 0 to -1 and at no other tick: at most once, and
\* exactly once when the countdown has run from its seed through zero; not
\* again on later overtime ticks nor after pause and start.
C3_EndReachedOncePerStep ==
  /\ [][endCalls' > endCalls =>
          TickDelivered /\ timeLeft = 0 /\ timeLeft' = -1]_vars
  /\ [][TickDelivered /\ timeLeft = 0 => endCalls' = endCalls + 1]_vars
  /\ [](endCalls <= 1)
  /\ [](seed >= 0 /\ timeLeft < 0 => endCalls = 1)
  /\ [](timeLeft >= 0 => endCalls = 0)

\* two ticks into overtime, startTimer called since, and still one call
C3_Witness ==
  /\ endCalls = 1
  /\ timeLeft <= -2
  /\ calls = {"startTimer"}
  /\ seed >= 1

\* C4: isOvertime turns true at the tick that takes timeLeft from 0 to -1,
\* stays true over ticks, pauseTimer and startTimer until resetTimer, and is
\* not true earlier in the step.
C4_OvertimeFlag ==
  /\ [][TickDelivered /\ timeLeft = 0 => isOvertime']_vars
  /\ [][~isOvertime /\ isOvertime' =>
          TickDelivered /\ timeLeft = 0 /\ timeLeft' = -1]_vars
  /\ [][isOvertime /\ ~isOvertime' => "resetTimer" \in calls']_vars
  /\ [](isOvertime => timeLeft < 0)

\* paused in overtime with the flag still up
C4_Witness ==
  /\ isOvertime
  /\ calls = {"pauseTimer"}
  /\ ~isRunning
  /\ timeLeft <= -2

\* C5: after resetTimer(d) with d >= 0 and then n ticks and nothing else,
\* timeLeft = d - n, totalTime has grown by n, totalOvertime by max(0, n - d),
\* isOvertime holds iff n > d and onTimerEnd was called once iff n > d, at
\* tick d + 1.
C5_ResetThenTicks ==
  /\ [](run >= 0 /\ seed >= 0 =>
          /\ timeLeft = seed - run
          /\ totalTime = baseTotal + run
          /\ totalOvertime = baseOvertime + Max(0, run - seed)
          /\ isOvertime = (run > seed)
          /\ endCalls = IF run > seed THEN 1 ELSE 0)
  /\ [][run >= 0 /\ seed >= 0 /\ endCalls' > endCalls => run' = seed + 1]_vars

\* resetTimer(5) and seven ticks
C5_Witness ==
  /\ seed = 5
  /\ run = 7
  /\ timeLeft = -2
  /\ isOvertime
  /\ totalOvertime = baseOvertime + 2
  /\ totalTime = baseTotal + 7
  /\ endCalls = 1

\* C6 as stated: a tick adds one to totalOvertime exactly when it leaves
\* timeLeft <= 0, the tick from 1 to 0 included.
C6_AsStated ==
  [][TickDelivered =>
       totalOvertime' = IF timeLeft' <= 0 THEN totalOvertime + 1
                        ELSE totalOvertime]_vars

\* C6: a tick adds one to totalOvertime exactly when it leaves timeLeft < 0
\* (timeLeft was <= 0 before it); the tick from 1 to 0 adds nothing.
C6_OvertimePerTick ==
  [][TickDelivered =>
       totalOvertime' = IF timeLeft' < 0 THEN totalOvertime + 1
                        ELSE totalOvertime]_vars

\* seed + 1 ticks into a step: the tick from 1 to 0 added nothing, the tick
\* from 0 to -1 added one
C6_Witness ==
  /\ calls = {"tick"}
  /\ seed >= 1
  /\ timeLeft = -1
  /\ totalTime = baseTotal + seed + 1
  /\ totalOvertime = baseOvertime + 1

\* C7: resetTimer(d) leaves timeLeft = d, isOvertime false and isRunning
\* true, and totalTime and totalOvertime as they were, whatever the state
\* it is called in.
C7_ResetEffect ==
  [][ "resetTimer" \in calls' =>
        /\ timeLeft' = seed'
        /\ ~isOvertime'
        /\ isRunning'
        /\ totalTime' = totalTime
        /\ totalOvertime' = totalOvertime ]_vars

\* a reset issued after two overtime ticks: the totals are kept
C7_Witness ==
  /\ calls = {"resetTimer"}
  /\ run = 0
  /\ timeLeft = seed
  /\ isRunning
  /\ ~isOvertime
  /\ baseOvertime >= 2
  /\ totalOvertime = baseOvertime

\* C8: a tick is delivered only while isRunning holds and the component is
\* mounted; while paused or torn down, timeLeft, totalTime, totalOvertime and
\* isOvertime change only through resetTimer.
C8_NoTickUnlessRunning ==
  /\ [][TickDelivered => isRunning /\ mounted]_vars
  /\ [][(~isRunning \/ ~mounted) /\ ~("resetTimer" \in calls') =>
          UNCHANGED << timeLeft, totalTime, totalOvertime, isOvertime >>]_vars
  /\ [][~mounted => UNCHANGED engineVars]_vars

\* paused after some ticks, with ticks still to come
C8_Witness ==
  /\ ~isRunning
  /\ calls = {"pauseTimer"}
  /\ ticks >= 1
  /\ ticks < MaxTicks

\* C9: startTimer sets isRunning, pauseTimer clears it, and neither changes
\* anything else; a second call in a row changes nothing at all.
C9_StartPauseIdempotent ==
  /\ [][calls' = {"startTimer"} =>
          /\ isRunning'
          /\ UNCHANGED << timeLeft, isOvertime, totalTime, totalOvertime,
                          seqVars >>]_vars
  /\ [][calls' = {"pauseTimer"} =>
          /\ ~isRunning'
          /\ UNCHANGED << timeLeft, isOvertime, totalTime, totalOvertime,
                          seqVars >>]_vars
  /\ [][repeated' => UNCHANGED << engineVars, seqVars >>]_vars

\* startTimer called twice in a row
C9_Witness ==
  /\ repeated
  /\ calls = {"startTimer"}
  /\ isRunning

\* sum of the planned durations of the first k steps
RECURSIVE PlannedBefore(_)
PlannedBefore(k) ==
  IF k = 0 THEN 0 ELSE PlannedBefore(k - 1) + heap[steps[k]].duration

\* p is 100 * (planned before index) / (planned in all), clamped to 100,
\* as IEEE arithmetic gives it
IsProgressAt(p, index) ==
  LET done == PlannedBefore(index)
      all == PlannedBefore(Len(steps))
  IN IF all = 0
     THEN p = (IF done = 0 THEN NaN
               ELSE IF done > 0 THEN Whole(100) ELSE NegInfinity)
     ELSE IF (all > 0 /\ done > all) \/ (all < 0 /\ done < all)
          THEN p = Whole(100)
          ELSE /\ p[2] > 0
               /\ p[1] * all = 100 * done * p[2]

\* C10: goToNextStep called before the last index adds one to currentStep,
\* sets progress to the formula at the new index, leaves isRoutineFinished
\* false and returns the new step's duration * 60.
C10_AdvanceBeforeLast ==
  [][ "goToNextStep" \in calls' /\ currentStep < Len(steps) - 1 =>
        /\ currentStep' = currentStep + 1
        /\ IsProgressAt(progress', currentStep + 1)
        /\ ~isRoutineFinished'
        /\ ret' = << (heap[steps[currentStep + 2]].duration * 60) \div DurScale >> ]_vars

\* an advance to the second step of a list whose first step has a duration
C10_Witness ==
  /\ "goToNextStep" \in calls
  /\ currentStep = 1
  /\ ret # << >>
  /\ ~isRoutineFinished
  /\ progress \notin {Whole(0), Whole(100), NaN}


\* C11: goToNextStep called at the last index sets isRoutineFinished and
\* progress = 100 and returns null; once isRoutineFinished is set, a further
\* goToNextStep leaves currentStep as it is and returns null, and only
\* updateSteps clears the flag.
C11_AdvanceAtLast ==
  /\ [][ "goToNextStep" \in calls' /\ ~(currentStep < Len(steps) - 1) =>
           /\ isRoutineFinished'
           /\ progress' = Whole(100)
           /\ ret' = << >> ]_vars
  /\ [][ "goToNextStep" \in calls' /\ isRoutineFinished =>
           /\ currentStep' = currentStep
           /\ ret' = << >>
           /\ isRoutineFinished'
           /\ progress' = Whole(100) ]_vars
  /\ [][ isRoutineFinished /\ ~isRoutineFinished' => "updateSteps" \in calls' ]_vars
  /\ [](isRoutineFinished => progress = Whole(100))

\* goToNextStep called again on a finished list of two steps or more
C11_Witness ==
  /\ again
  /\ isRoutineFinished
  /\ Len(steps) >= 2
  /\ currentStep = Len(steps) - 1
  /\ ret = << >>
  /\ progress = Whole(100)


\* p is a number between 0 and 100
InPercentRange(p) == p[2] > 0 /\ 0 <= p[1] /\ p[1] <= 100 * p[2]

\* C12 as stated: in every reachable state progress is a number in [0, 100]
\* and equals 100 * (planned before currentStep) / (planned in all), clamped
\* to 100, or 100 when isRoutineFinished is set.  (Where the planned total is
\* zero the quotient is undefined and only the range is asked for.)
C12_AsStated ==
  /\ InPercentRange(progress)
  /\ IF isRoutineFinished
     THEN progress = Whole(100)
     ELSE PlannedBefore(Len(steps)) # 0 => IsProgressAt(progress, currentStep)


\* p < q as IEEE compares them (false when either is NaN)
Less(p, q) ==
  IF p = NaN \/ q = NaN THEN FALSE
  ELSE IF q = NegInfinity THEN FALSE
  ELSE IF p = NegInfinity THEN TRUE
  ELSE p[1] * q[2] < q[1] * p[2]

\* C13 as stated: a goToNextStep never lowers progress, and progress is
\* exactly 100 once isRoutineFinished is set.
C13_AsStated ==
  /\ [][ "goToNextStep" \in calls' => ~Less(progress', progress) ]_vars
  /\ [](isRoutineFinished => progress = Whole(100))


\* the running list is three steps of one minute each
ThreeOneMinuteSteps ==
  /\ Len(steps) = 3
  /\ \A i \in 0..2 : StepAt(i).duration = 1 * DurScale

\* C14 as stated: with steps of 1, 1 and 1 minute, after two advances
\* (currentStep = 2, not finished) the displayed progress is 66.
C14_AsStated ==
  ThreeOneMinuteSteps /\ currentStep = 2 /\ ~isRoutineFinished =>
    Round(progress) = Whole(66)

\* C14: with steps of 1, 1 and 1 minute, after two advances currentStep = 2
\* and the displayed progress is Math.round(200 / 3) = 67; the third advance
\* sets isRoutineFinished and progress = 100 and returns null.
C14_ScenarioA ==
  /\ [](ThreeOneMinuteSteps /\ currentStep = 2 /\ ~isRoutineFinished =>
          progress = << 200, 3 >> /\ Round(progress) = Whole(67))
  /\ [][ /\ ThreeOneMinuteSteps
         /\ "goToNextStep" \in calls'
         /\ currentStep = 1
         => currentStep' = 2 /\ ~isRoutineFinished' ]_vars
  /\ [][ /\ ThreeOneMinuteSteps
         /\ "goToNextStep" \in calls'
         /\ currentStep = 2
         => /\ isRoutineFinished'
            /\ progress' = Whole(100)
            /\ Round(progress') = Whole(100)
            /\ ret' = << >> ]_vars

\* the third advance has just been made on the list 1, 1, 1
C14_Witness ==
  /\ ThreeOneMinuteSteps
  /\ "goToNextStep" \in calls
  /\ currentStep = 2
  /\ isRoutineFinished
  /\ ~again
  /\ ret = << >>


\* the event is the component's next-step action
NextStepAction == variant # "steps" /\ "goToNextStep" \in calls'

\* C15: a next-step action taken below the last index moves to the next step,
\* resets the engine to that step's duration * 60 (timeLeft is that value,
\* isRunning is set, isOvertime is cleared), and opens that step's url exactly
\* when the url is not empty; this holds at every step of every behaviour, so
\* for next-step actions that follow one another directly as well.
C15_NextStepResets ==
  [][ NextStepAction /\ currentStep < Len(steps) - 1 =>
        /\ currentStep' = currentStep + 1
        /\ "resetTimer" \in calls'
        /\ "pauseTimer" \notin calls'
        /\ timeLeft' = (heap'[steps'[currentStep' + 1]].duration * SecondsPerMinute)
                         \div DurScale
        /\ isRunning'
        /\ ~isOvertime'
        /\ lastOpened' = heap'[steps'[currentStep' + 1]].url ]_vars

\* a next-step action has just opened the url of the step it moved to and
\* reset the engine to that step's duration, after ticks of the step before
C15_Witness ==
  /\ calls = {"goToNextStep", "resetTimer"}
  /\ currentStep = 1
  /\ lastOpened # ""
  /\ lastOpened = StepAt(1).url
  /\ timeLeft = Seconds(StepAt(1).duration)
  /\ isRunning
  /\ ~isOvertime
  /\ totalTime > 0


\* C16: a next-step action at the last index pauses the engine and opens no
\* url; while isRoutineFinished stays set no interval callback is delivered
\* and timeLeft, totalTime and totalOvertime keep their values.
C16_FinishFreezes ==
  /\ [][ NextStepAction /\ ~(currentStep < Len(steps) - 1) =>
           /\ isRoutineFinished'
           /\ ~isRunning'
           /\ "resetTimer" \notin calls'
           /\ lastOpened' = ""
           /\ UNCHANGED << timeLeft, totalTime, totalOvertime >> ]_vars
  /\ [][ isRoutineFinished /\ isRoutineFinished' =>
           /\ ~TickDelivered
           /\ ~isRunning'
           /\ UNCHANGED << timeLeft, totalTime, totalOvertime >> ]_vars

\* the routine has just been finished on a last step that carries a url,
\* after some ticks
C16_Witness ==
  /\ calls = {"goToNextStep", "pauseTimer"}
  /\ isRoutineFinished
  /\ ~isRunning
  /\ lastOpened = ""
  /\ StepAt(currentStep).url # ""
  /\ totalTime > 0


\* C17: an interval callback, the one that reaches the end and every later
\* one included, leaves currentStep, isRoutineFinished, progress and the step
\* list as they were.
C17_TickLeavesSequence ==
  [][ TickDelivered =>
        /\ currentStep' = currentStep
        /\ isRoutineFinished' = isRoutineFinished
        /\ progress' = progress
        /\ steps' = steps
        /\ heap' = heap ]_vars

\* a callback has run in overtime, after the end was signalled, and the
\* sequence is still at its first step
C17_Witness ==
  /\ calls = {"tick"}
  /\ variant # "engine"
  /\ timeLeft < -1
  /\ isOvertime
  /\ endCalls = 1
  /\ currentStep = 0
  /\ progress = Whole(0)
  /\ ~isRoutineFinished


\* C18: updateSteps(newSteps) makes newSteps the list, sets currentStep to 0,
\* clears isRoutineFinished and sets progress to 0 in one step, and leaves
\* timeLeft, isRunning, isOvertime, totalTime and totalOvertime as they were.
C18_ReplaceAll ==
  [][ "updateSteps" \in calls' =>
        /\ variant = "editable" => steps' = editedSteps /\ heap' = heap
        /\ currentStep' = 0
        /\ ~isRoutineFinished'
        /\ progress' = Whole(0)
        /\ timeLeft' = timeLeft
        /\ isRunning' = isRunning
        /\ isOvertime' = isOvertime
        /\ totalTime' = totalTime
        /\ totalOvertime' = totalOvertime ]_vars

\* an edited list has just been saved while the engine was running with
\* time on its totals
C18_Witness ==
  /\ calls = {"updateSteps"}
  /\ variant = "editable"
  /\ mounted
  /\ edits > 0
  /\ currentStep = 0
  /\ progress = Whole(0)
  /\ isRunning
  /\ totalTime > 0
  /\ timeLeft # Seconds(StepAt(0).duration)


\* C19 as stated: after a save of the edited list, timeLeft is the duration
\* * 60 of the first step of the new list, whatever it was before.
C19_AsStated ==
  [][ "updateSteps" \in calls' /\ variant = "editable" /\ mounted' =>
        timeLeft' = (heap'[steps'[1]].duration * SecondsPerMinute) \div DurScale ]_vars


\* the steps of the running sequence, as values
RunningSteps == [i \in 1..Len(steps) |-> heap[steps[i]]]

\* C20 as stated: no step of the running sequence changes except by a saved
\* edit (updateSteps); a change made in the editor leaves it as it was.
C20_AsStated ==
  [][ RunningSteps' # RunningSteps => "updateSteps" \in calls' ]_vars


\* C21 as stated: 0 <= currentStep < steps.length, or currentStep equals
\* steps.length when isRoutineFinished is set.
C21_AsStated ==
  \/ 0 <= currentStep /\ currentStep < Len(steps)
  \/ isRoutineFinished /\ currentStep = Len(steps)


\* C22 as stated: when the routine is finished or the step list is empty, a
\* query of the current step's duration yields an error, never a duration.
\* (The query is a pure read, so the state is left as it was by construction.)
C22_AsStated ==
  isRoutineFinished \/ Len(steps) = 0 =>
    getCurrentStepDurationOutcome[1] # "returns"


\* C23 as stated: every duration stored by the editor, and so every duration
\* of a list it saves, is >= 0.
C23_AsStated ==
  \A i \in 1..Len(heap) : heap[i].duration >= 0


\* two decimal digits for n below 100, the plain decimal numeral above
Pad2(n) ==
  IF n < 100 THEN << DecimalDigits[(n \div 10) + 1], DecimalDigits[(n % 10) + 1] >>
  ELSE toString(n)

\* C24: formatTime(s) is sign, pad2(|s| div 60), ":", pad2(|s| mod 60), with
\* the sign "-" exactly when s < 0; -65 gives "-01:05", 0 gives "00:00" and
\* 125 gives "02:05".
C24_FormatTime ==
  "formatTime" \in calls =>
    /\ ret = (IF timeLeft < 0 THEN << "-" >> ELSE << >>)
               \o Pad2(Abs(timeLeft) \div 60) \o << ":" >> \o Pad2(Abs(timeLeft) % 60)
    /\ timeLeft = -65 => ret = << "-", "0", "1", ":", "0", "5" >>
    /\ timeLeft = 0 => ret = << "0", "0", ":", "0", "0" >>
    /\ timeLeft = 125 => ret = << "0", "2", ":", "0", "5" >>

\* formatTime(-65) has been rendered
C24_Witness ==
  /\ calls = {"formatTime"}
  /\ timeLeft = -65
  /\ ret = << "-", "0", "1", ":", "0", "5" >>


\* C25: a pause in the middle of a period banks nothing. A callback is
\* delivered only when a whole period has gone by since startTimer last set
\* isRunning, whatever had gone by before the pause; pause/start pairs that
\* each come within one period so deliver no callback. The pause and the
\* start deliver none themselves and begin the period anew.
C25_NoBankedProgress ==
  /\ [][ TickDelivered => waited >= TickPeriod - 1 ]_vars
  /\ [][ "pauseTimer" \in calls' \/ "startTimer" \in calls' =>
           ticks' = ticks /\ (isRunning' # isRunning => sinceArmed' = 0) ]_vars

\* the first callback has been delivered a whole period after a start that
\* followed a pause in the middle of a period
C25_Witness ==
  /\ variant = "clock"
  /\ calls = {"tick"}
  /\ ticks = 1
  /\ discarded > 0
  /\ waited = TickPeriod - 1


\* C26: while the engine runs on a seed that is a whole number of seconds
\* >= 0 (the step durations of the claim), isOvertime is set exactly when
\* timeLeft < 0, after any ticks, start, pause, next-step and edit actions.
C26_OvertimeIffNegative ==
  seed >= 0 => (isOvertime <=> timeLeft < 0)

\* the engine has been reset to a step of duration 0 and has run into
\* overtime from there
C26_Witness ==
  /\ variant = "editable"
  /\ currentStep = 1
  /\ seed = 0
  /\ isOvertime
  /\ timeLeft < 0


\* C27: totalTime and totalOvertime never decrease, and
\* 0 <= totalOvertime <= totalTime in every reachable state.
C27_TotalsMonotone ==
  /\ [][ totalTime' >= totalTime /\ totalOvertime' >= totalOvertime ]_vars
  /\ [](0 <= totalOvertime /\ totalOvertime <= totalTime)

\* a saved edit has followed callbacks of which every one was in overtime,
\* and the totals are as the callbacks left them
C27_Witness ==
  /\ calls = {"updateSteps"}
  /\ ticks >= 2
  /\ totalTime = ticks
  /\ totalOvertime = totalTime


\* C28: with a list of N >= 1 steps and no updateSteps in between, the
\* routine is not finished before the N-th goToNextStep and is finished by
\* it; until then currentStep is the number of calls made, so it takes the
\* values 0..N-1 in order; a caller who keeps calling goToNextStep gets to
\* the finish unless an updateSteps starts the list anew.
C28_FinishesOnNth ==
  /\ [](Len(steps) >= 1 /\ ~isRoutineFinished =>
          nexts = currentStep /\ nexts < Len(steps))
  /\ [](Len(steps) >= 1 /\ isRoutineFinished =>
          nexts >= Len(steps) /\ currentStep = Len(steps) - 1)
  /\ [][ Len(steps) >= 1 /\ ~isRoutineFinished /\ isRoutineFinished' =>
           nexts' = Len(steps) /\ steps' = steps ]_vars
  /\ [][ "goToNextStep" \in calls' /\ ~isRoutineFinished /\ ~isRoutineFinished' =>
           currentStep' = currentStep + 1 ]_vars
  /\ []<>(isRoutineFinished \/ "updateSteps" \in calls)

\* a list of three steps has just been finished by the third call
C28_Witness ==
  /\ Len(steps) = 3
  /\ nexts = 3
  /\ calls = {"goToNextStep"}
  /\ isRoutineFinished
  /\ ~again
  /\ currentStep = 2
  /\ heap[steps[1]].duration = 0


\* C29: before any event the engine is not running, timeLeft is the first
\* step's duration * 60, totalTime and totalOvertime are 0, isOvertime is
\* clear, currentStep and progress are 0 and the routine is not finished; no
\* callback is delivered until a start or a next-step has set isRunning.
C29_SessionStart ==
  /\ [](calls = {} =>
          /\ ~isRunning
          /\ timeLeft = (heap[steps[1]].duration * SecondsPerMinute) \div DurScale
          /\ totalTime = 0
          /\ totalOvertime = 0
          /\ ~isOvertime
          /\ currentStep = 0
          /\ progress = Whole(0)
          /\ ~isRoutineFinished
          /\ ticks = 0)
  /\ [][ TickDelivered => isRunning ]_vars
  /\ [][ ~isRunning /\ isRunning' =>
           "startTimer" \in calls' \/ "goToNextStep" \in calls' ]_vars

\* the fixed routine as first rendered: 0.1 minute on the clock, not running
C29_Witness ==
  /\ calls = {}
  /\ variant = "fixed"
  /\ timeLeft = 6
  /\ ~isRunning
  /\ ticks = 0


\* C30 as stated: with a seed that is not a whole number of seconds, the
\* callback that takes the time left below zero sets isOvertime and calls
\* onTimerEnd once.
C30_AsStated ==
  [][ TickDelivered /\ fraction > 0 /\ timeLeft >= 0 /\ timeLeft' < 0 =>
        isOvertime' /\ endCalls' = endCalls + 1 ]_vars

====
